---- MODULE Spec2Model ----
(***************************************************************************)
(* Client-side authentication / session lifecycle of the Endurain web     *)
(* frontend: the auth store (stores/authStore), the auth-aware request     *)
(* layer (utils/serviceUtils.js) and the session service.                  *)
(*                                                                         *)
(* JavaScript runs one task at a time and a task gives up control only at  *)
(* a network await.  Every action below is therefore one run-to-suspension *)
(* step: from the arrival of a network response (or a UI call) up to the   *)
(* next fetch() or the end of the call chain.                              *)
(*                                                                         *)
(* Tokens are modelled by the number of the issuance (login or refresh     *)
(* response) that produced them; 0 is null.  Users and session ids are     *)
(* naturals, 0 is null.                                                    *)
(***************************************************************************)
EXTENDS Naturals, Integers, FiniteSets, Sequences, TLC

\* ------------------------------------------------------------------ bounds
\* number of token issuances (login / refresh successes) the backend makes
MaxIssue == 3
\* number of WebSocket objects alive at once
MaxSock == 2
\* number of calls the UI makes (requests and logouts) in one run
MaxCalls == 2
\* number of leading random bytes of a verifier that are drawn freely
MaxRandom == 2

\* concurrent callers of the request layer (UI tasks)
Tasks == {1, 2}
\* user ids the backend knows
Users == {1, 2}

VARIABLES
    authStore,      \* the Pinia auth store state
    localStorage,   \* durable browser storage: the items it holds, by key
    sockets,        \* WebSocket objects created by this page: readyState, token
    task,           \* per caller: position in fetchWithRetry / logoutUser
    issued,         \* backend: number of token issuances made so far
    redirect,       \* window.location.replace(login?sessionExpired=true) issued
                    \* and not yet committed: "none", or what failed
    calls,          \* number of calls the UI has made
    pkce,           \* one use of the PKCE utilities: random bytes, verifier,
                    \* challenge, the challenge computed a second time
    refreshTokenPromise
                    \* serviceUtils.js' module variable: 0 (null), or the
                    \* caller whose call created the pending promise

vars == <<authStore, localStorage, sockets, task, issued, redirect, calls, pkce, refreshTokenPromise>>

\* ------------------------------------------------------------------ urls
\* A url is the sequence of its path segments: 'auth/login' is <<"auth","login">>.
AuthLogin == <<"auth", "login">>
AuthRefresh == <<"auth", "refresh">>
AuthLogout == <<"auth", "logout">>
AuthMfaVerify == <<"auth", "mfa", "verify">>
MfaVerify == <<"mfa", "verify">>
GarminLink == <<"garminconnect", "link">>
PasswordResetRequest == <<"password-reset", "request">>
PasswordResetConfirm == <<"password-reset", "confirm">>
SignUpRequest == <<"sign-up", "request">>
SignUpConfirm == <<"sign-up", "confirm">>
Profile == <<"profile">>
PublicIdp == <<"public", "idp">>
\* the url the module-level refreshAccessToken of serviceUtils.js posts to
Refresh == <<"refresh">>
\* `public/idp/session/${session_id}/tokens`, for one session id
PkceTokens == <<"public", "idp", "session", "sid", "tokens">>

\* url.startsWith('public/')
StartsWithPublic(url) == Len(url) >= 2 /\ url[1] = "public"

\* The calls the UI makes through the request layer: url and method.
Requests ==
    { [url |-> Profile, method |-> "GET"],
      [url |-> AuthLogin, method |-> "POST"],
      [url |-> AuthMfaVerify, method |-> "POST"],
      [url |-> GarminLink, method |-> "PUT"],
      [url |-> PublicIdp, method |-> "GET"] }

\* The calls made through fetchPublicGetRequest / fetchPublicPostRequest: the
\* PKCE token exchange.
PublicRequests == { [url |-> PkceTokens, method |-> "POST"] }

NoRequest == [url |-> <<>>, method |-> "NONE"]

\* ------------------------------------------------------------------ responses
InvalidMfaCode == "Invalid MFA code"
GarminAuthError == "There was an authentication error using Garmin Connect"
UnknownError == "Unknown error"
\* the details of a failed PKCE token exchange, by status
PkceErrors ==
    { [status |-> 400, detail |-> "Invalid code_verifier", body |-> 0],
      [status |-> 404, detail |-> "Session not found", body |-> 0],
      [status |-> 409, detail |-> "Tokens already exchanged", body |-> 0],
      [status |-> 429, detail |-> "Rate limit exceeded", body |-> 0] }

\* error payload details the backend sends; a detail either is the phrase the
\* request layer looks for or does not contain it
Includes(detail, phrase) == detail = phrase

\* A response: status, the detail of the error payload (non-2xx; "" when the
\* payload has none) and body.  The body of a token endpoint is the issuance
\* number of the tokens it carries, or the MFA-required payload of
\* auth/login; of any other endpoint the payload; 0 is an empty body.
Payload == MaxIssue + 1
\* {mfa_required: true, username, message}: the body of the 202 a web client
\* gets from auth/login when MFA is enabled; it has no tokens
MfaRequired == MaxIssue + 2
IsTokenEndpoint(url) ==
    url \in {AuthLogin, AuthMfaVerify, AuthRefresh, PkceTokens, Refresh}

ErrorResponses(url) ==
    { [status |-> 401, detail |-> "", body |-> 0],
      [status |-> 500, detail |-> "", body |-> 0] }
    \cup (IF url = AuthMfaVerify
          THEN {[status |-> 401, detail |-> InvalidMfaCode, body |-> 0]} ELSE {})
    \cup (IF url = GarminLink
          THEN {[status |-> 401, detail |-> GarminAuthError, body |-> 0]} ELSE {})
    \cup (IF url = PkceTokens THEN PkceErrors ELSE {})

OkResponses(url) ==
    {[status |-> 204, detail |-> "", body |-> 0]}
    \cup (IF IsTokenEndpoint(url)
          THEN (IF issued < MaxIssue
                THEN {[status |-> 200, detail |-> "", body |-> issued + 1]} ELSE {})
          ELSE {[status |-> 200, detail |-> "", body |-> Payload]})
    \cup (IF url = AuthLogin
          THEN {[status |-> 202, detail |-> "", body |-> MfaRequired]} ELSE {})

Responses(url) == OkResponses(url) \cup ErrorResponses(url)

\* response.ok
Ok(resp) == resp.status >= 200 /\ resp.status <= 299

\* (mutant) the detail is used as it is, without the fallback
errorMessageNoFallback(resp) == resp.detail

\* errorBody.detail || 'Unknown error'
errorMessage(resp) == IF resp.detail = "" THEN UnknownError ELSE resp.detail

\* error.message.startsWith('401'), the message being
\* `${status} - ${errorMessage}`
Is401(resp) == resp.status = 401

\* a body that carries tokens (access_token is there)
HasTokens(body) == body >= 1 /\ body <= MaxIssue

\* ------------------------------------------------------------------ store
FreshStore ==
    [ user |-> 0, isAuthenticated |-> FALSE, user_websocket |-> 0,
      session_id |-> 0, accessToken |-> 0, csrfToken |-> 0 ]

\* The headers of a request: Authorization (the bearer token, 0 absent),
\* X-CSRF-Token (0 absent) and X-Client-Type ("" absent).
NoHeaders == [auth |-> 0, csrf |-> 0, clientType |-> ""]

\* (mutant) the request options are built without X-Client-Type
requestOptionsNoClientType(method) == NoHeaders

\* the options.headers fetchGetRequest, fetchPostRequest, fetchPutRequest,
\* fetchDeleteRequest, fetchPostFileRequest and fetchPostFormUrlEncoded
\* build, and those of fetchPublicGetRequest / fetchPublicPostRequest
requestOptions(method) == [NoHeaders EXCEPT !.clientType = "web"]

NoSocket == [readyState |-> "NONE", token |-> 0]

NoOutcome == [kind |-> "none", status |-> 0, detail |-> "", val |-> 0]

NoResponse == [status |-> 0, detail |-> "", body |-> 0]

\* pc: position in fetchWithRetry; lopc: position in logoutUser (called by the
\* UI, or started without await by fetchWithRetry's catch).  headers are the
\* options.headers of the request, sends the number of times it was sent;
\* call holds the headers of the auth/refresh or auth/logout call the task
\* has in flight.  first / retry are the responses the two attempts got (for
\* a logoutUser, first is the response of auth/logout), refreshed the
\* issuance the recovery's refresh brought, out what the caller of
\* fetchWithRetry got, loOut what the caller of logoutUser got, promise the
\* promise a call of serviceUtils.js' refreshAccessToken returned.
IdleTask ==
    [ pc |-> "idle", lopc |-> "none", req |-> NoRequest, public |-> FALSE,
      headers |-> NoHeaders,
      sends |-> 0, call |-> NoHeaders, first |-> NoResponse,
      retry |-> NoResponse, refreshed |-> 0, out |-> NoOutcome,
      loOut |-> "none", promise |-> 0 ]

\* The store, the sockets and the storage, as the synchronous store actions
\* read and write them together.
World == [st |-> authStore, socks |-> sockets, ls |-> localStorage]

\* ------------------------------------------------------------------ localStorage
\* localStorage.setItem / removeItem / getItem (null is 0)
setItem(ls, key, value) ==
    [k \in DOMAIN ls \cup {key} |-> IF k = key THEN value ELSE ls[k]]
removeItem(ls, key) == [k \in DOMAIN ls \ {key} |-> ls[k]]
getItem(ls, key) == IF key \in DOMAIN ls THEN ls[key] ELSE 0

\* user.preferred_language of the user record the backend sent
preferred_language(userData) == IF userData = 1 THEN "us" ELSE "pt"

\* setLocale: the language goes to the 'lang' item
setLocale(w, language) == [w EXCEPT !.ls = setItem(@, "lang", language)]

\* ------------------------------------------------------------------ store actions
SocketIds == 1 .. MaxSock
FreeSockets(socks) == {i \in SocketIds : socks[i].readyState = "NONE"}
IsOpen(w) ==
    w.st.user_websocket # 0 /\ w.socks[w.st.user_websocket].readyState = "OPEN"

\* this.user_websocket.close(): an open socket starts its closing handshake
closeSocket(socks, i) == [socks EXCEPT ![i].readyState = "CLOSING"]

\* setUserWebsocket: a new WebSocket for ws?access_token=<accessToken>, kept
\* in user_websocket; what user_websocket held before is not looked at
setUserWebsocket(w) ==
    LET i == CHOOSE j \in FreeSockets(w.socks) :
                 \A k \in FreeSockets(w.socks) : j <= k
    IN  [w EXCEPT !.st.user_websocket = i,
                  !.socks[i] = [readyState |-> "CONNECTING",
                                token |-> w.st.accessToken]]

\* (mutant) the access token is written to durable storage as well
setAccessTokenPersisted(w, token) ==
    [w EXCEPT !.st.accessToken = token,
              !.ls = setItem(@, "accessToken", token)]

setAccessToken(w, token) == [w EXCEPT !.st.accessToken = token]
setCsrfToken(w, token) == [w EXCEPT !.st.csrfToken = token]

setUserSessionId(w, session_id) ==
    [w EXCEPT !.st.session_id = session_id,
              !.ls = setItem(@, "session_id", session_id)]

\* (mutant) setUser without the notification channel
setUserNoWebsocket(w, userData, session_id) ==
    LET w1 == [w EXCEPT !.st.user = userData,
                        !.ls = setItem(@, "user", userData)]
        w2 == setUserSessionId(w1, session_id)
        w3 == [w2 EXCEPT !.st.isAuthenticated = TRUE]
    IN  setLocale(w3, preferred_language(userData))

setUser(w, userData, session_id) ==
    LET w1 == [w EXCEPT !.st.user = userData,
                        !.ls = setItem(@, "user", userData)]
        w2 == setUserSessionId(w1, session_id)
        w3 == [w2 EXCEPT !.st.isAuthenticated = TRUE]
    IN  setLocale(setUserWebsocket(w3), preferred_language(userData))

\* (mutant) the CSRF token survives the clearing
clearUserKeepsCsrf(w) ==
    LET w1 == [w EXCEPT !.st.isAuthenticated = FALSE, !.st.user = 0]
        w2 == IF IsOpen(w1)
              THEN [w1 EXCEPT !.socks = closeSocket(w1.socks, w1.st.user_websocket)]
              ELSE w1
    IN  setLocale(
            [w2 EXCEPT !.st.user_websocket = 0, !.st.session_id = 0,
                       !.st.accessToken = 0,
                       !.ls = removeItem(removeItem(@, "user"), "session_id")],
            "us")

clearUser(w) ==
    LET w1 == [w EXCEPT !.st.isAuthenticated = FALSE, !.st.user = 0]
        w2 == IF IsOpen(w1)
              THEN [w1 EXCEPT !.socks = closeSocket(w1.socks, w1.st.user_websocket)]
              ELSE w1
    IN  setLocale(
            [w2 EXCEPT !.st.user_websocket = 0, !.st.session_id = 0,
                       !.st.accessToken = 0, !.st.csrfToken = 0,
                       !.ls = removeItem(removeItem(@, "user"), "session_id")],
            "us")

\* (mutant) the tokens are taken from the persisted session as well
loadUserFromStorageWithTokens(w) ==
    IF getItem(w.ls, "user") # 0
    THEN setLocale(
             [w EXCEPT !.st.user = getItem(w.ls, "user"),
                       !.st.isAuthenticated = TRUE,
                       !.st.session_id = getItem(w.ls, "session_id"),
                       !.st.accessToken = getItem(w.ls, "session_id")],
             preferred_language(getItem(w.ls, "user")))
    ELSE w

loadUserFromStorage(w) ==
    IF getItem(w.ls, "user") # 0
    THEN setLocale(
             [w EXCEPT !.st.user = getItem(w.ls, "user"),
                       !.st.isAuthenticated = TRUE,
                       !.st.session_id = getItem(w.ls, "session_id")],
             preferred_language(getItem(w.ls, "user")))
    ELSE w

\* response && response.access_token, for the value session.refreshToken()
\* resolved with; a non-2xx response made it throw instead
HasAccessToken(resp) == Ok(resp) /\ HasTokens(resp.body)

\* (mutant) a successful refresh stores the access token only
refreshAccessTokenKeepsCsrf(w, resp) ==
    IF HasAccessToken(resp)
    THEN LET w1 == [w EXCEPT !.st.accessToken = resp.body]
         IN  IF IsOpen(w1)
             THEN setUserWebsocket(
                      [w1 EXCEPT !.socks = closeSocket(w1.socks, w1.st.user_websocket)])
             ELSE w1
    ELSE [w EXCEPT !.st.accessToken = 0, !.st.csrfToken = 0,
                   !.st.isAuthenticated = FALSE]

\* (mutant) the catch clears the access token only
refreshAccessTokenCatchKeepsCsrf(w, resp) ==
    IF HasAccessToken(resp)
    THEN LET w1 == [w EXCEPT !.st.accessToken = resp.body,
                             !.st.csrfToken = resp.body]
         IN  IF IsOpen(w1)
             THEN setUserWebsocket(
                      [w1 EXCEPT !.socks = closeSocket(w1.socks, w1.st.user_websocket)])
             ELSE w1
    ELSE [w EXCEPT !.st.accessToken = 0, !.st.isAuthenticated = FALSE]

\* refreshAccessToken of the store, from the point where the auth/refresh
\* call has settled with resp.  The refresh response of the backend carries
\* access_token and csrf_token together.
refreshAccessTokenSettle(w, resp) ==
    IF HasAccessToken(resp)
    THEN LET w1 == [w EXCEPT !.st.accessToken = resp.body,
                             !.st.csrfToken = resp.body]
         IN  IF IsOpen(w1)
             THEN setUserWebsocket(
                      [w1 EXCEPT !.socks = closeSocket(w1.socks, w1.st.user_websocket)])
             ELSE w1
    ELSE [w EXCEPT !.st.accessToken = 0, !.st.csrfToken = 0,
                   !.st.isAuthenticated = FALSE]

\* the step can run within the model's socket bound
SocketRoom(w, resp) ==
    (HasAccessToken(resp) /\ IsOpen(w)) => FreeSockets(w.socks) # {}

\* ------------------------------------------------------------------ request layer
PublicEndpoint(url) ==
    \/ url \in {AuthLogin, PasswordResetRequest, PasswordResetConfirm,
                SignUpRequest, SignUpConfirm}
    \/ StartsWithPublic(url)

StateChanging == {"POST", "PUT", "DELETE", "PATCH"}

\* (mutant) auth/mfa/verify is not on the CSRF allow-list
CsrfExemptNoMfa ==
    {AuthLogin, PasswordResetRequest, PasswordResetConfirm,
     SignUpRequest, SignUpConfirm}

CsrfExempt ==
    {AuthLogin, AuthMfaVerify, PasswordResetRequest, PasswordResetConfirm,
     SignUpRequest, SignUpConfirm}

\* (mutant) the Authorization header is attached whatever the url
addAuthHeadersNoAllowList(url, method, headers, st) ==
    LET h1 == IF st.accessToken # 0
              THEN [headers EXCEPT !.auth = st.accessToken]
              ELSE headers
    IN  IF method \in StateChanging /\ url \notin CsrfExempt /\ st.csrfToken # 0
        THEN [h1 EXCEPT !.csrf = st.csrfToken]
        ELSE h1

\* (mutant) the CSRF token is attached whatever the method
addAuthHeadersCsrfAnyMethod(url, method, headers, st) ==
    LET h1 == IF ~PublicEndpoint(url) /\ st.accessToken # 0
              THEN [headers EXCEPT !.auth = st.accessToken]
              ELSE headers
    IN  IF url \notin CsrfExempt /\ st.csrfToken # 0
        THEN [h1 EXCEPT !.csrf = st.csrfToken]
        ELSE h1

\* addAuthHeaders: headers are the options.headers the call came with
addAuthHeaders(url, method, headers, st) ==
    LET h1 == IF ~PublicEndpoint(url) /\ st.accessToken # 0
              THEN [headers EXCEPT !.auth = st.accessToken]
              ELSE headers
    IN  IF method \in StateChanging /\ url \notin CsrfExempt /\ st.csrfToken # 0
        THEN [h1 EXCEPT !.csrf = st.csrfToken]
        ELSE h1

\* (mutant) the status of the error is not looked at
RecoverableAnyStatus(url, resp) ==
    /\ url \notin {AuthLogin, AuthRefresh, AuthLogout}
    /\ ~(url = GarminLink /\ Includes(resp.detail, GarminAuthError))
    /\ ~(url = MfaVerify /\ Includes(resp.detail, InvalidMfaCode))

\* (mutant) the session endpoints are not set apart
RecoverableAnyUrl(url, resp) ==
    /\ Is401(resp)
    /\ ~(url = GarminLink /\ Includes(resp.detail, GarminAuthError))
    /\ ~(url = MfaVerify /\ Includes(resp.detail, InvalidMfaCode))

\* (mutant) the Garmin Connect message is not set apart
RecoverableNoGarmin(url, resp) ==
    /\ Is401(resp)
    /\ url \notin {AuthLogin, AuthRefresh, AuthLogout}
    /\ ~(url = MfaVerify /\ Includes(resp.detail, InvalidMfaCode))

\* the 401s fetchWithRetry answers with a refresh and a retry
Recoverable(url, resp) ==
    /\ Is401(resp)
    /\ url \notin {AuthLogin, AuthRefresh, AuthLogout}
    /\ ~(url = GarminLink /\ Includes(resp.detail, GarminAuthError))
    /\ ~(url = MfaVerify /\ Includes(resp.detail, InvalidMfaCode))

\* The store's own calls (session.refreshToken, session.logoutUser) go
\* through fetchWithRetry as well: the answer resp to url would send that
\* inner call into a 401 recovery of its own
Reenters(url, resp) == ~Ok(resp) /\ Recoverable(url, resp)

\* attemptFetch's result for a 2xx response: null for 204, else the parsed body
Resolved(resp) ==
    [kind |-> "resolved", status |-> resp.status, detail |-> "",
     val |-> IF resp.status = 204 THEN 0 ELSE resp.body]
\* attemptFetch's Error(`${status} - ${detail}`)
Rejected(resp) ==
    [kind |-> "rejected", status |-> resp.status, detail |-> errorMessage(resp),
     val |-> 0]
\* fetchWithRetry's catch falls off the end of the function
Undefined == [kind |-> "undefined", status |-> 0, detail |-> "", val |-> 0]

\* the backend counts an issuance when it answers a token endpoint with tokens
Issue(url, resp) ==
    IF IsTokenEndpoint(url) /\ HasAccessToken(resp) THEN resp.body ELSE issued

\* (mutant) the refresh request goes out with the options as built
refreshTokenNoCsrf(st) == requestOptions("POST")

\* session.refreshToken(): fetchPostRequest('auth/refresh') up to its fetch();
\* the headers the call goes out with
refreshToken(st) ==
    addAuthHeaders(AuthRefresh, "POST", requestOptions("POST"), st)

\* session.logoutUser(): fetchPostRequest('auth/logout') up to its fetch()
sessionLogoutUser(st) ==
    addAuthHeaders(AuthLogout, "POST", requestOptions("POST"), st)

\* logoutUser up to its first await: a refresh first when a token is missing
logoutUserPc(st) ==
    IF st.csrfToken = 0 \/ st.accessToken = 0 THEN "refreshing" ELSE "loggingout"

logoutUserCall(st) ==
    IF logoutUserPc(st) = "refreshing" THEN refreshToken(st)
    ELSE sessionLogoutUser(st)

Put(w) ==
    /\ authStore' = w.st
    /\ sockets' = w.socks
    /\ localStorage' = w.ls

\* ------------------------------------------------------------------ PKCE utilities
\* A string is the sequence of its characters, a buffer the sequence of its
\* bytes (0..255).

\* the alphabet of btoa: A-Z, a-z, 0-9, +, /
Base64Alphabet ==
    << "A", "B", "C", "D", "E", "F", "G", "H", "I", "J", "K", "L", "M",
       "N", "O", "P", "Q", "R", "S", "T", "U", "V", "W", "X", "Y", "Z",
       "a", "b", "c", "d", "e", "f", "g", "h", "i", "j", "k", "l", "m",
       "n", "o", "p", "q", "r", "s", "t", "u", "v", "w", "x", "y", "z",
       "0", "1", "2", "3", "4", "5", "6", "7", "8", "9", "+", "/" >>

\* [A-Za-z0-9]
AlphaNumeric == {Base64Alphabet[i] : i \in 1 .. 62}

\* btoa(binary): three bytes give four characters; a last group of one or
\* two bytes is padded with '='.  Character p of the output belongs to
\* group g of three bytes; a byte that is missing from the last group counts
\* as 0 for the bits it shares, and its own characters are '='.
btoa(bytes) ==
    LET A == Base64Alphabet
        n == Len(bytes)
        byte(k) == IF k <= n THEN bytes[k] ELSE 0
        char(p) ==
            LET g == 3 * ((p - 1) \div 4)
                k == (p - 1) % 4
            IN  IF k = 0 THEN A[(byte(g + 1) \div 4) + 1]
                ELSE IF k = 1
                THEN A[(byte(g + 1) % 4) * 16 + (byte(g + 2) \div 16) + 1]
                ELSE IF k = 2
                THEN (IF g + 2 > n THEN "="
                      ELSE A[(byte(g + 2) % 16) * 4 + (byte(g + 3) \div 64) + 1])
                ELSE (IF g + 3 > n THEN "=" ELSE A[(byte(g + 3) % 64) + 1])
    IN  [p \in 1 .. 4 * ((n + 2) \div 3) |-> char(p)]

\* str.replace(/<from>/g, to) for a one-character pattern
replace(str, from, to) ==
    [i \in 1 .. Len(str) |-> IF str[i] = from THEN to ELSE str[i]]

\* str.replace(/=+$/, ''): the string up to its last character that is
\* not '='
stripPadding(str) ==
    LET kept == {i \in 0 .. Len(str) : i = 0 \/ str[i] # "="}
        last == CHOOSE i \in kept : \A k \in kept : k <= i
    IN  SubSeq(str, 1, last)

\* (mutant) plain base64 without the url-safe characters
base64URLEncodeNoReplace(buffer) == stripPadding(btoa(buffer))

\* base64URLEncode: the bytes as a binary string, btoa, '+' to '-', '/' to
\* '_', trailing padding removed
base64URLEncode(buffer) ==
    stripPadding(replace(replace(btoa(buffer), "+", "-"), "/", "_"))

\* new Uint8Array(32)
VerifierBytes == 32
\* the byte length of a SHA-256 digest
DigestBytes == 32

\* the code unit of a character of the base64 and base64url alphabets
charCode(c) ==
    IF c = "-" THEN 45
    ELSE IF c = "_" THEN 95
    ELSE IF c = "+" THEN 43
    ELSE IF c = "/" THEN 47
    ELSE IF c = "=" THEN 61
    ELSE LET i == CHOOSE j \in 1 .. 62 : Base64Alphabet[j] = c
         IN  IF i <= 26 THEN 64 + i ELSE IF i <= 52 THEN 70 + i ELSE i - 5

\* new TextEncoder().encode(verifier): the UTF-8 bytes of an ASCII string
encode(str) == [i \in 1 .. Len(str) |-> charCode(str[i])]

\* crypto.subtle.digest('SHA-256', data).  The digest is DigestBytes bytes
\* and a function of data alone; a polynomial checksum of data stands for
\* the bytes SHA-256 computes.
checksum(data, acc) ==
    LET sum[i \in 0 .. Len(data)] ==
            IF i = 0 THEN acc ELSE (sum[i - 1] * 31 + data[i] + 1) % 65521
    IN  sum[Len(data)]
digest(data) ==
    LET h == checksum(data, 7)
    IN  [i \in 1 .. DigestBytes |-> ((h + i) * ((h % 251) + i) + i) % 256]

\* generateCodeVerifier, for the bytes crypto.getRandomValues gave
generateCodeVerifier(array) == base64URLEncode(array)

\* generateCodeChallenge
generateCodeChallenge(verifier) == base64URLEncode(digest(encode(verifier)))

\* validateCodeVerifier: 43-128 characters of [A-Za-z0-9\-._~]
validateCodeVerifier(verifier) ==
    /\ ~(Len(verifier) < 43 \/ Len(verifier) > 128)
    /\ \A i \in 1 .. Len(verifier) :
           verifier[i] \in AlphaNumeric \cup {"-", ".", "_", "~"}

\* validateCodeChallenge: 43 characters of [A-Za-z0-9\-_]
validateCodeChallenge(challenge) ==
    /\ Len(challenge) = 43
    /\ \A i \in 1 .. Len(challenge) :
           challenge[i] \in AlphaNumeric \cup {"-", "_"}

\* byte values the leading random bytes are drawn from
ByteSamples == {0, 63, 190, 239, 251, 255}

\* the arrays crypto.getRandomValues may leave: the leading bytes are drawn
\* freely, the others follow from them
RandomArrays ==
    { [i \in 1 .. VerifierBytes |->
          IF i <= MaxRandom THEN v[i]
          ELSE (v[1] + i * (v[MaxRandom] + 1) + i * i) % 256] :
      v \in [1 .. MaxRandom -> ByteSamples] }

NoPkce ==
    [pc |-> "none", array |-> << >>, verifier |-> << >>, challenge |-> << >>,
     again |-> << >>]

\* ------------------------------------------------------------------ initial state
\* A freshly loaded page with empty storage: main.js builds the store and
\* calls loadUserFromStorage, which finds nothing.
Init ==
    /\ authStore = FreshStore
    /\ localStorage = << >>
    /\ sockets = [i \in SocketIds |-> NoSocket]
    /\ task = [t \in Tasks |-> IdleTask]
    /\ issued = 0
    /\ redirect = "none"
    /\ calls = 0
    /\ pkce = NoPkce
    /\ refreshTokenPromise = 0

\* A call has just settled and its caller has not run yet.  The caller's
\* continuation runs in the same turn of the event loop, before any other
\* network event is delivered.
Settled(t) == task[t].pc = "done" \/ task[t].lopc = "done"
NoneSettled == \A t \in Tasks : ~Settled(t)

\* t is the first free caller slot (slots are interchangeable)
FirstFree(t) ==
    /\ task[t].pc = "idle" /\ task[t].lopc = "none"
    /\ \A u \in Tasks : u < t => ~(task[u].pc = "idle" /\ task[u].lopc = "none")

\* ------------------------------------------------------------------ fetchWithRetry
\* A UI call through fetchGetRequest / fetchPostRequest / fetchPutRequest:
\* headers injected, first attemptFetch started.
Fetch(t, r) ==
    /\ NoneSettled /\ FirstFree(t)
    /\ calls < MaxCalls
    /\ calls' = calls + 1
    /\ task' = [task EXCEPT ![t] =
           [IdleTask EXCEPT !.pc = "sent1", !.req = r, !.sends = 1,
               !.headers = addAuthHeaders(r.url, r.method,
                                          requestOptions(r.method), authStore)]]
    /\ UNCHANGED <<authStore, localStorage, sockets, issued, redirect, pkce, refreshTokenPromise>>

\* (mutant) the request layer keeps the access token of a 2xx it passes on
FetchOkKeepsToken(t, resp) ==
    /\ NoneSettled
    /\ task[t].pc = "sent1"
    /\ resp \in OkResponses(task[t].req.url)
    /\ task' = [task EXCEPT ![t].pc = "done", ![t].first = resp,
                            ![t].out = Resolved(resp)]
    /\ issued' = Issue(task[t].req.url, resp)
    /\ authStore' = [authStore EXCEPT !.accessToken =
                         IF resp.status = 200 THEN resp.body ELSE @]
    /\ UNCHANGED <<localStorage, sockets, redirect, calls, pkce, refreshTokenPromise>>

\* The first attempt got a 2xx: its result goes to the caller.
FetchOk(t, resp) ==
    /\ NoneSettled
    /\ task[t].pc = "sent1"
    /\ resp \in OkResponses(task[t].req.url)
    /\ task' = [task EXCEPT ![t].pc = "done", ![t].first = resp,
                            ![t].out = Resolved(resp)]
    /\ issued' = Issue(task[t].req.url, resp)
    /\ UNCHANGED <<authStore, localStorage, sockets, redirect, calls, pkce, refreshTokenPromise>>

\* The first attempt failed with an error fetchWithRetry rethrows.
FetchError(t, resp) ==
    /\ NoneSettled
    /\ task[t].pc = "sent1"
    /\ resp \in ErrorResponses(task[t].req.url)
    /\ ~Recoverable(task[t].req.url, resp)
    /\ task' = [task EXCEPT ![t].pc = "done", ![t].first = resp,
                            ![t].out = Rejected(resp)]
    /\ UNCHANGED <<authStore, localStorage, sockets, issued, redirect, calls, pkce, refreshTokenPromise>>

\* The first attempt got a 401 that is answered with a refresh:
\* authStore.refreshAccessToken() -> session.refreshToken() -> fetch().
FetchUnauthorized(t, resp) ==
    /\ NoneSettled
    /\ task[t].pc = "sent1"
    /\ resp \in ErrorResponses(task[t].req.url)
    /\ Recoverable(task[t].req.url, resp)
    /\ task' = [task EXCEPT ![t].pc = "refreshing", ![t].first = resp,
                            ![t].call = refreshToken(authStore)]
    /\ UNCHANGED <<authStore, localStorage, sockets, issued, redirect, calls, pkce, refreshTokenPromise>>

\* (mutant) the retry goes out with the headers of the first attempt
RefreshSucceedsStaleHeaders(t, resp) ==
    /\ NoneSettled
    /\ task[t].pc = "refreshing"
    /\ resp \in Responses(AuthRefresh)
    /\ HasAccessToken(resp)
    /\ SocketRoom(World, resp)
    /\ Put(refreshAccessTokenSettle(World, resp))
    /\ task' = [task EXCEPT ![t].pc = "sent2", ![t].sends = 2,
                            ![t].call = NoHeaders, ![t].refreshed = resp.body]
    /\ issued' = Issue(AuthRefresh, resp)
    /\ UNCHANGED <<redirect, calls, pkce, refreshTokenPromise>>

\* The refresh of a recovery succeeded: store updated, headers injected
\* again, the original request sent a second time.
RefreshSucceeds(t, resp) ==
    /\ NoneSettled
    /\ task[t].pc = "refreshing"
    /\ resp \in Responses(AuthRefresh)
    /\ HasAccessToken(resp)
    /\ SocketRoom(World, resp)
    /\ LET w == refreshAccessTokenSettle(World, resp)
           h == addAuthHeaders(task[t].req.url, task[t].req.method,
                               task[t].headers, w.st)
       IN  /\ Put(w)
           /\ task' = [task EXCEPT ![t].pc = "sent2", ![t].headers = h,
                                   ![t].sends = 2, ![t].call = NoHeaders,
                                   ![t].refreshed = resp.body]
    /\ issued' = Issue(AuthRefresh, resp)
    /\ UNCHANGED <<redirect, calls, pkce, refreshTokenPromise>>

\* fetchWithRetry's catch: logoutUser() is started and not awaited, the
\* redirect is issued, and the function ends without a return value.
\* w is the world the catch runs in.
Teardown(t, w, retryResp) ==
    /\ Put(w)
    /\ task' = [task EXCEPT ![t].pc = "done", ![t].out = Undefined,
                            ![t].retry = retryResp,
                            ![t].lopc = logoutUserPc(w.st),
                            ![t].call = logoutUserCall(w.st)]
    /\ redirect' = IF retryResp = NoResponse THEN "refreshFailed" ELSE "retryFailed"

\* The refresh of a recovery failed (non-2xx, or no access token in it).
RefreshFails(t, resp) ==
    /\ NoneSettled
    /\ task[t].pc = "refreshing"
    /\ resp \in Responses(AuthRefresh)
    /\ ~HasAccessToken(resp)
    /\ IF Reenters(AuthRefresh, resp)
       THEN /\ task' = [task EXCEPT ![t].pc = "reentered"]
            /\ UNCHANGED <<authStore, localStorage, sockets, redirect>>
       ELSE Teardown(t, refreshAccessTokenSettle(World, resp), NoResponse)
    /\ UNCHANGED <<issued, calls, pkce, refreshTokenPromise>>

\* (mutant) the result of the second attempt is dropped
RetryOkDropsResult(t, resp) ==
    /\ NoneSettled
    /\ task[t].pc = "sent2"
    /\ resp \in OkResponses(task[t].req.url)
    /\ task' = [task EXCEPT ![t].pc = "done", ![t].retry = resp,
                            ![t].out = Undefined]
    /\ issued' = Issue(task[t].req.url, resp)
    /\ UNCHANGED <<authStore, localStorage, sockets, redirect, calls, pkce, refreshTokenPromise>>

\* The second attempt got a 2xx.
RetryOk(t, resp) ==
    /\ NoneSettled
    /\ task[t].pc = "sent2"
    /\ resp \in OkResponses(task[t].req.url)
    /\ task' = [task EXCEPT ![t].pc = "done", ![t].retry = resp,
                            ![t].out = Resolved(resp)]
    /\ issued' = Issue(task[t].req.url, resp)
    /\ UNCHANGED <<authStore, localStorage, sockets, redirect, calls, pkce, refreshTokenPromise>>

\* The second attempt failed: its error is thrown inside the same try as
\* the refresh, so the same catch runs.
RetryError(t, resp) ==
    /\ NoneSettled
    /\ task[t].pc = "sent2"
    /\ resp \in ErrorResponses(task[t].req.url)
    /\ Teardown(t, World, resp)
    /\ UNCHANGED <<issued, calls, pkce, refreshTokenPromise>>

\* ------------------------------------------------------------------ public calls
\* fetchPublicGetRequest / fetchPublicPostRequest: attemptFetch with the
\* options as built, outside fetchWithRetry.
PublicFetch(t, r) ==
    /\ NoneSettled /\ FirstFree(t)
    /\ calls < MaxCalls
    /\ calls' = calls + 1
    /\ task' = [task EXCEPT ![t] =
           [IdleTask EXCEPT !.pc = "pubsent", !.req = r, !.public = TRUE,
               !.sends = 1, !.headers = requestOptions(r.method)]]
    /\ UNCHANGED <<authStore, localStorage, sockets, issued, redirect, pkce, refreshTokenPromise>>

\* attemptFetch resolved: the caller gets the result.
PublicFetchOk(t, resp) ==
    /\ NoneSettled
    /\ task[t].pc = "pubsent"
    /\ resp \in OkResponses(task[t].req.url)
    /\ task' = [task EXCEPT ![t].pc = "done", ![t].first = resp,
                            ![t].out = Resolved(resp)]
    /\ issued' = Issue(task[t].req.url, resp)
    /\ UNCHANGED <<authStore, localStorage, sockets, redirect, calls, pkce, refreshTokenPromise>>

\* (mutant) the error of a public call is answered with a refresh
PublicFetchErrorRefreshes(t, resp) ==
    /\ NoneSettled
    /\ task[t].pc = "pubsent"
    /\ resp \in ErrorResponses(task[t].req.url)
    /\ task' = [task EXCEPT ![t].pc = "refreshing", ![t].first = resp,
                            ![t].call = refreshToken(authStore)]
    /\ UNCHANGED <<authStore, localStorage, sockets, issued, redirect, calls, pkce, refreshTokenPromise>>

\* attemptFetch threw: the caller gets the error.
PublicFetchError(t, resp) ==
    /\ NoneSettled
    /\ task[t].pc = "pubsent"
    /\ resp \in ErrorResponses(task[t].req.url)
    /\ task' = [task EXCEPT ![t].pc = "done", ![t].first = resp,
                            ![t].out = Rejected(resp)]
    /\ UNCHANGED <<authStore, localStorage, sockets, issued, redirect, calls, pkce, refreshTokenPromise>>

\* ------------------------------------------------------------------ logoutUser
\* The UI calls authStore.logoutUser(router, locale).
Logout(t) ==
    /\ NoneSettled /\ FirstFree(t)
    /\ authStore.isAuthenticated
    /\ calls < MaxCalls
    /\ calls' = calls + 1
    /\ task' = [task EXCEPT ![t].lopc = logoutUserPc(authStore),
                            ![t].call = logoutUserCall(authStore)]
    /\ UNCHANGED <<authStore, localStorage, sockets, issued, redirect, pkce, refreshTokenPromise>>

\* The refresh logoutUser made first has settled; whatever it gave, its
\* error is only logged and session.logoutUser() is called.
LogoutRefreshed(t, resp) ==
    /\ NoneSettled
    /\ task[t].lopc = "refreshing"
    /\ resp \in Responses(AuthRefresh)
    /\ SocketRoom(World, resp)
    /\ IF Reenters(AuthRefresh, resp)
       THEN /\ task' = [task EXCEPT ![t].lopc = "reentered"]
            /\ UNCHANGED <<authStore, localStorage, sockets>>
       ELSE LET w == refreshAccessTokenSettle(World, resp)
            IN  /\ Put(w)
                /\ task' = [task EXCEPT ![t].lopc = "loggingout",
                                        ![t].call = sessionLogoutUser(w.st)]
    /\ issued' = Issue(AuthRefresh, resp)
    /\ UNCHANGED <<redirect, calls, pkce, refreshTokenPromise>>

\* (mutant) without the catch and the finally
logoutUserSettleNoFinally(w, resp) ==
    IF Ok(resp) THEN [w |-> clearUser(w), loOut |-> "resolved"]
    ELSE [w |-> w, loOut |-> "rejected"]

\* logoutUser once session.logoutUser() has settled with resp: the catch
\* logs an error, the finally clears the user; the promise resolves.
logoutUserSettle(w, resp) == [w |-> clearUser(w), loOut |-> "resolved"]

LogoutSettled(t, resp) ==
    /\ NoneSettled
    /\ task[t].lopc = "loggingout"
    /\ resp \in Responses(AuthLogout)
    /\ IF Reenters(AuthLogout, resp)
       THEN /\ task' = [task EXCEPT ![t].lopc = "reentered"]
            /\ UNCHANGED <<authStore, localStorage, sockets>>
       ELSE LET r == logoutUserSettle(World, resp)
            IN  /\ Put(r.w)
                /\ task' = [task EXCEPT ![t].lopc = "done", ![t].loOut = r.loOut,
                                        ![t].call = NoHeaders, ![t].first = resp]
    /\ UNCHANGED <<issued, redirect, calls, pkce, refreshTokenPromise>>

\* ------------------------------------------------------------------ callers
\* the call of t resolved with the tokens of a login
GotLoginTokens(t) ==
    /\ task[t].pc = "done" /\ task[t].lopc = "none"
    /\ task[t].req.url \in {AuthLogin, AuthMfaVerify, PkceTokens}
    /\ task[t].out.kind = "resolved" /\ HasTokens(task[t].out.val)

\* The login view, after auth/login, auth/mfa/verify or the PKCE token
\* exchange resolved with tokens: tokens into the store, then setUser.
LoginComplete(t, u) ==
    /\ GotLoginTokens(t)
    /\ FreeSockets(sockets) # {}
    /\ LET tok == task[t].out.val
       IN  Put(setUser(setCsrfToken(setAccessToken(World, tok), tok), u, tok))
    /\ task' = [task EXCEPT ![t] = IdleTask]
    /\ UNCHANGED <<issued, redirect, calls, pkce, refreshTokenPromise>>

\* The caller of fetchWithRetry, or of logoutUser, takes the outcome.  A
\* logoutUser that fetchWithRetry started without await goes on by itself.
Consume(t) ==
    /\ Settled(t)
    /\ ~(GotLoginTokens(t) /\ FreeSockets(sockets) # {})
    /\ task' = [task EXCEPT ![t] =
           IF task[t].lopc \in {"none", "done"} THEN IdleTask
           ELSE [IdleTask EXCEPT !.lopc = task[t].lopc, !.call = task[t].call]]
    /\ UNCHANGED <<authStore, localStorage, sockets, issued, redirect, calls, pkce, refreshTokenPromise>>

\* ------------------------------------------------------------------ environment
\* The document is loaded anew (the user reloads, or the navigation of a
\* redirect commits): pending promises and sockets of the old page are gone,
\* the store is built fresh and main.js calls loadUserFromStorage.
Reload ==
    /\ NoneSettled
    /\ LET w == loadUserFromStorage(
                    [st |-> FreshStore,
                     socks |-> [i \in SocketIds |-> NoSocket],
                     ls |-> localStorage])
       IN  Put(w)
    /\ task' = [t \in Tasks |-> IdleTask]
    /\ redirect' = "none"
    /\ refreshTokenPromise' = 0
    /\ UNCHANGED <<issued, calls, pkce>>

\* The connection of a socket is established.
SocketOpens(i) ==
    /\ NoneSettled
    /\ sockets[i].readyState = "CONNECTING"
    /\ sockets' = [sockets EXCEPT ![i].readyState = "OPEN"]
    /\ UNCHANGED <<authStore, localStorage, task, issued, redirect, calls, pkce, refreshTokenPromise>>

\* The closing handshake of a socket that close() was called on is done; the
\* store let go of it when it called close(), so the object is garbage.
SocketCloses(i) ==
    /\ NoneSettled
    /\ sockets[i].readyState = "CLOSING"
    /\ sockets' = [sockets EXCEPT ![i] = NoSocket]
    /\ UNCHANGED <<authStore, localStorage, task, issued, redirect, calls, pkce, refreshTokenPromise>>

Next ==
    \/ \E t \in Tasks, r \in Requests : Fetch(t, r)
    \/ \E t \in Tasks : \E resp \in Responses(task[t].req.url) : FetchOk(t, resp)
    \/ \E t \in Tasks : \E resp \in Responses(task[t].req.url) : FetchError(t, resp)
    \/ \E t \in Tasks : \E resp \in Responses(task[t].req.url) :
          FetchUnauthorized(t, resp)
    \/ \E t \in Tasks, resp \in Responses(AuthRefresh) : RefreshSucceeds(t, resp)
    \/ \E t \in Tasks, resp \in Responses(AuthRefresh) : RefreshFails(t, resp)
    \/ \E t \in Tasks : \E resp \in Responses(task[t].req.url) : RetryOk(t, resp)
    \/ \E t \in Tasks : \E resp \in Responses(task[t].req.url) : RetryError(t, resp)
    \/ \E t \in Tasks, r \in PublicRequests : PublicFetch(t, r)
    \/ \E t \in Tasks : \E resp \in Responses(task[t].req.url) :
          PublicFetchOk(t, resp)
    \/ \E t \in Tasks : \E resp \in Responses(task[t].req.url) :
          PublicFetchError(t, resp)
    \/ \E t \in Tasks : Logout(t)
    \/ \E t \in Tasks, resp \in Responses(AuthRefresh) : LogoutRefreshed(t, resp)
    \/ \E t \in Tasks, resp \in Responses(AuthLogout) : LogoutSettled(t, resp)
    \/ \E t \in Tasks, u \in Users : LoginComplete(t, u)
    \/ \E t \in Tasks : Consume(t)
    \/ \E i \in SocketIds : SocketOpens(i)
    \/ \E i \in SocketIds : SocketCloses(i)
    \/ Reload

Spec == Init /\ [][Next]_vars

\* ------------------------------------------------------------------ PKCE pair
\* One login attempt's use of the PKCE utilities, on a freshly loaded page:
\* the random bytes are there, nothing is computed yet.
InitPkce ==
    /\ authStore = FreshStore
    /\ localStorage = << >>
    /\ sockets = [i \in SocketIds |-> NoSocket]
    /\ task = [t \in Tasks |-> IdleTask]
    /\ issued = 0
    /\ redirect = "none"
    /\ calls = 0
    /\ pkce \in {[NoPkce EXCEPT !.pc = "random", !.array = a] : a \in RandomArrays}
    /\ refreshTokenPromise = 0

GenerateCodeVerifier ==
    /\ pkce.pc = "random"
    /\ pkce' = [pkce EXCEPT !.pc = "verifier",
                            !.verifier = generateCodeVerifier(pkce.array)]
    /\ UNCHANGED <<authStore, localStorage, sockets, task, issued, redirect, calls,
                   refreshTokenPromise>>

GenerateCodeChallenge ==
    /\ pkce.pc = "verifier"
    /\ pkce' = [pkce EXCEPT !.pc = "challenge",
                            !.challenge = generateCodeChallenge(pkce.verifier)]
    /\ UNCHANGED <<authStore, localStorage, sockets, task, issued, redirect, calls,
                   refreshTokenPromise>>

\* generateCodeChallenge called a second time with the same verifier
GenerateCodeChallengeAgain ==
    /\ pkce.pc = "challenge"
    /\ pkce' = [pkce EXCEPT !.pc = "again",
                            !.again = generateCodeChallenge(pkce.verifier)]
    /\ UNCHANGED <<authStore, localStorage, sockets, task, issued, redirect, calls,
                   refreshTokenPromise>>

NextPkce ==
    \/ GenerateCodeVerifier
    \/ GenerateCodeChallenge
    \/ GenerateCodeChallengeAgain

SpecPkce == InitPkce /\ [][NextPkce]_vars

\* ------------------------------------------------------------------ refresh coordinator
\* The module-level refreshAccessToken of serviceUtils.js.  Nothing in the
\* module calls it and it is not exported (fetchWithRetry calls the store's
\* refreshAccessToken), so Spec has no step of it; SpecCoordinator is the
\* function under callers of its own.  Whether the backend serves the path
\* 'refresh' is outside the source: the call is answered like auth/refresh.

\* the options of the coordinator's request: X-Client-Type, and X-CSRF-Token
\* when the store has a CSRF token; no Authorization header
coordinatorOptions(st) ==
    [NoHeaders EXCEPT !.clientType = "web", !.csrf = st.csrfToken]

\* response.access_token read from the null attemptFetch returns for a 204
NullResponse == "TypeError: response is null"

\* what the promise settles with
coordinatorOutcome(resp) ==
    IF ~Ok(resp) THEN Rejected(resp)
    ELSE IF resp.status = 204
         THEN [kind |-> "rejected", status |-> 0, detail |-> NullResponse, val |-> 0]
         ELSE Resolved(resp)

\* the body of the promise after attemptFetch settled: the three setters
coordinatorSettle(w, resp) ==
    IF HasAccessToken(resp)
    THEN setUserSessionId(
             setCsrfToken(setAccessToken(w, resp.body), resp.body), resp.body)
    ELSE w

\* (mutant) a call never looks at refreshTokenPromise
refreshAccessTokenNoGuard(t) ==
    /\ NoneSettled /\ FirstFree(t)
    /\ task' = [task EXCEPT ![t] =
           [IdleTask EXCEPT !.pc = "awaiting", !.promise = t, !.sends = 1,
               !.req = [url |-> Refresh, method |-> "POST"],
               !.headers = coordinatorOptions(authStore)]]
    /\ refreshTokenPromise' = t
    /\ UNCHANGED <<authStore, localStorage, sockets, issued, redirect, calls, pkce>>

\* A call of refreshAccessToken(), up to its return: the pending promise if
\* there is one, else a new promise whose body has sent the request.
refreshAccessToken(t) ==
    /\ NoneSettled /\ FirstFree(t)
    /\ IF refreshTokenPromise # 0
       THEN /\ task' = [task EXCEPT ![t] =
                   [IdleTask EXCEPT !.pc = "awaiting",
                                    !.promise = refreshTokenPromise]]
            /\ UNCHANGED refreshTokenPromise
       ELSE /\ task' = [task EXCEPT ![t] =
                   [IdleTask EXCEPT !.pc = "awaiting", !.promise = t, !.sends = 1,
                       !.req = [url |-> Refresh, method |-> "POST"],
                       !.headers = coordinatorOptions(authStore)]]
            /\ refreshTokenPromise' = t
    /\ UNCHANGED <<authStore, localStorage, sockets, issued, redirect, calls, pkce>>

\* what the callers holding promise p get when it settles with resp
Awaiters(p, resp) ==
    [t \in Tasks |->
        IF task[t].pc = "awaiting" /\ task[t].promise = p
        THEN [task[t] EXCEPT !.pc = "done", !.out = coordinatorOutcome(resp),
                             !.first = IF task[t].sends = 1 THEN resp ELSE @]
        ELSE task[t]]

\* (mutant) the marker is cleared on success only
refreshTokenPromiseSettledNoFinally(resp) ==
    /\ NoneSettled
    /\ refreshTokenPromise # 0
    /\ Put(coordinatorSettle(World, resp))
    /\ task' = Awaiters(refreshTokenPromise, resp)
    /\ refreshTokenPromise' = IF HasAccessToken(resp) THEN 0 ELSE refreshTokenPromise
    /\ issued' = Issue(Refresh, resp)
    /\ UNCHANGED <<redirect, calls, pkce>>

\* The request of the pending promise came back: setters on success, the
\* marker cleared in the finally, every caller holding the promise resumed
\* with its outcome.
refreshTokenPromiseSettled(resp) ==
    /\ NoneSettled
    /\ refreshTokenPromise # 0
    /\ Put(coordinatorSettle(World, resp))
    /\ task' = Awaiters(refreshTokenPromise, resp)
    /\ refreshTokenPromise' = 0
    /\ issued' = Issue(Refresh, resp)
    /\ UNCHANGED <<redirect, calls, pkce>>

NextCoordinator ==
    \/ \E t \in Tasks : refreshAccessToken(t)
    \/ \E resp \in Responses(Refresh) : refreshTokenPromiseSettled(resp)
    \/ \E t \in Tasks : Consume(t)
    \/ \E i \in SocketIds : SocketOpens(i)
    \/ Reload

\* The pages the coordinator is called on: a fresh anonymous page, or a page
\* on which user u has completed the first login (the state LoginComplete
\* leaves); Reload gives the reloaded pages, SocketOpens the open channel.
FreshWorld ==
    [st |-> FreshStore, socks |-> [i \in SocketIds |-> NoSocket], ls |-> << >>]

LoggedIn(u) == setUser(setCsrfToken(setAccessToken(FreshWorld, 1), 1), u, 1)

InitCoordinator ==
    /\ \E w \in {FreshWorld} \cup {LoggedIn(u) : u \in Users} :
          /\ authStore = w.st
          /\ sockets = w.socks
          /\ localStorage = w.ls
          /\ issued = w.st.accessToken
    /\ task = [t \in Tasks |-> IdleTask]
    /\ redirect = "none"
    /\ calls = 0
    /\ pkce = NoPkce
    /\ refreshTokenPromise = 0

SpecCoordinator == InitCoordinator /\ [][NextCoordinator]_vars

\* ------------------------------------------------------------------ properties
\* Session State fully cleared, in memory and in durable storage.
FullyCleared ==
    /\ authStore.user = 0
    /\ ~authStore.isAuthenticated
    /\ authStore.accessToken = 0
    /\ authStore.csrfToken = 0
    /\ authStore.session_id = 0
    /\ getItem(localStorage, "user") = 0
    /\ getItem(localStorage, "session_id") = 0

\* the tasks whose 401 recovery has an auth/refresh call on the network
Refreshing == {t \in Tasks : task[t].pc = "refreshing"}

\* C1: requests that are in flight together and each get a 401 share one
\* network call to auth/refresh: at no time do two recoveries each have an
\* auth/refresh call of their own on the network.
C1_SingleFlight == Cardinality(Refreshing) <= 1

\* C2: after a 401 and a successful refresh the original request has been
\* sent a second time; the caller never gets an error from the recovery, and
\* when the second attempt succeeds the caller gets exactly its result.
C2_RetryResultReturned ==
    \A t \in Tasks :
        (task[t].pc = "done" /\ task[t].refreshed # 0) =>
            /\ task[t].sends = 2
            /\ task[t].out.kind # "rejected"
            /\ Ok(task[t].retry) => task[t].out = Resolved(task[t].retry)

C2_Witness ==
    \E t \in Tasks :
        /\ task[t].pc = "done" /\ task[t].refreshed # 0
        /\ task[t].first.status = 401
        /\ task[t].retry.status = 200
        /\ task[t].out.kind = "resolved" /\ task[t].out.val = Payload

\* C3: when the refresh made during 401 recovery fails, the session ends
\* fully cleared with the sessionExpired redirect: at the moment the
\* redirect's navigation takes effect, the state in memory and the persisted
\* user and session_id are all cleared.
C3_ClearedWhenRedirected ==
    [][(redirect = "refreshFailed" /\ redirect' = "none") => FullyCleared']_vars

\* C4: a 401 from auth/mfa/verify whose message contains "Invalid MFA code"
\* goes straight to the caller: the request is sent once, no refresh is
\* called, no logout is started and the caller gets that error.
C4_InvalidMfaCodePropagates ==
    \A t \in Tasks :
        ( /\ task[t].req.url = AuthMfaVerify
          /\ task[t].first.status = 401
          /\ Includes(task[t].first.detail, InvalidMfaCode) ) =>
            /\ task[t].pc = "done"
            /\ task[t].out = Rejected(task[t].first)
            /\ task[t].sends = 1
            /\ task[t].lopc = "none"

\* A step in which t hands a fetch() of its request to the network.
SendsRequest(t) == task[t].sends' > task[t].sends
\* A step in which t hands an auth/refresh or auth/logout call to the network.
SendsCall(t) ==
    \/ task[t].pc # "refreshing" /\ task[t].pc' = "refreshing"
    \/ task[t].lopc # "refreshing" /\ task[t].lopc' = "refreshing"
    \/ task[t].lopc # "loggingout" /\ task[t].lopc' = "loggingout"

\* C5: a request to an allow-listed public endpoint never carries an
\* Authorization header, on the first attempt and on the retry, whatever
\* token is in memory; every other request (auth/refresh and auth/logout
\* included) carries the accessToken held at header injection, and none
\* when that is empty.
C5_AuthorizationHeader ==
    /\ [](\A t \in Tasks :
            PublicEndpoint(task[t].req.url) => task[t].headers.auth = 0)
    /\ [][\A t \in Tasks :
            /\ (SendsRequest(t) /\ ~PublicEndpoint(task[t].req.url')) =>
                   task[t].headers.auth' = authStore.accessToken'
            /\ SendsCall(t) => task[t].call.auth' = authStore.accessToken']_vars

\* a public endpoint retried after a refresh, with the new token in memory
C5_Witness ==
    \E t \in Tasks :
        /\ task[t].pc = "sent2" /\ task[t].req.url = PublicIdp
        /\ task[t].refreshed # 0 /\ authStore.accessToken = task[t].refreshed
        /\ task[t].headers.auth = 0

NeedsCsrf(t) ==
    task[t].req.method \in StateChanging /\ task[t].req.url \notin CsrfExempt

FirstFailedNot401(t) ==
    task[t].pc # "idle" /\ task[t].first.status # 0
    /\ ~Ok(task[t].first) /\ task[t].first.status # 401

\* C8: a non-401 error of a request goes to the caller unchanged: the call
\* ends rejected with that very error after one send, no refresh and no
\* logout is started, and the step changes neither Session State nor the
\* storage nor the sockets, and issues no redirect.
C8_Non401Propagates ==
    /\ [](\A t \in Tasks :
            FirstFailedNot401(t) =>
                /\ task[t].pc = "done" /\ task[t].out = Rejected(task[t].first)
                /\ task[t].sends = 1 /\ task[t].lopc = "none"
                /\ task[t].call = NoHeaders)
    /\ [][\A t \in Tasks :
            (task[t].pc = "sent1" /\ FirstFailedNot401(t)') =>
                UNCHANGED <<authStore, localStorage, sockets, redirect, issued>>]_vars

C8_Witness ==
    \E t \in Tasks :
        /\ FirstFailedNot401(t) /\ task[t].req.url = Profile
        /\ task[t].out.kind = "rejected" /\ task[t].out.status = 500
        /\ authStore.accessToken # 0

\* a step in which the refresh of a 401 recovery succeeds
RecoveryRefreshed(t) == task[t].pc = "refreshing" /\ task[t].pc' = "sent2"

C10_LogoutAlwaysClears ==
    /\ [](\A t \in Tasks :
            /\ task[t].loOut # "rejected"
            /\ (task[t].lopc = "refreshing" /\ NoneSettled) =>
                  \A resp \in ErrorResponses(AuthRefresh) :
                      ENABLED LogoutRefreshed(t, resp)
            /\ (task[t].lopc = "loggingout" /\ NoneSettled) =>
                  \A resp \in Responses(AuthLogout) :
                      ENABLED LogoutSettled(t, resp))
    /\ [][\A t \in Tasks :
            (task[t].lopc # "done" /\ task[t].lopc' = "done") =>
                (FullyCleared' /\ task[t].loOut' = "resolved"
                 /\ authStore.user_websocket' = 0)]_vars

\* a logout whose backend call failed, after a login, has cleared the session
C10_Witness ==
    \E t \in Tasks :
        /\ task[t].lopc = "done" /\ task[t].loOut = "resolved"
        /\ task[t].first.status = 500
        /\ FullyCleared /\ issued > 0

C12_IdentityInvariant == authStore.user # 0 => authStore.isAuthenticated

\* the sockets this page created that are connecting or open
Alive == {i \in SocketIds : sockets[i].readyState \in {"CONNECTING", "OPEN"}}

\* C13: at most one notification channel created by the store is open or
\* connecting at any time: opening a new one never leaves an earlier one
\* alive.
C13_ChannelUniqueness == Cardinality(Alive) <= 1

\* the items of durable storage that are no credentials: the user record,
\* the session id and the language setting
NonCredentialItems == {"user", "session_id", "lang"}

\* C14: durable storage never holds anything but user, session_id and
\* non-credential settings: no store action writes accessToken or csrfToken
\* to it, and a page load starts with both tokens empty whatever the
\* storage holds.
C14_TokensNeverPersisted ==
    /\ [](DOMAIN localStorage \subseteq NonCredentialItems)
    /\ [][Reload => (authStore.accessToken' = 0 /\ authStore.csrfToken' = 0)]_vars

\* a page loaded from the storage a login left: user and session id are
\* back, the tokens are not
C14_Witness ==
    /\ DOMAIN localStorage = NonCredentialItems
    /\ authStore.isAuthenticated /\ authStore.user_websocket = 0
    /\ authStore.session_id # 0
    /\ authStore.accessToken = 0 /\ authStore.csrfToken = 0
    /\ \A t \in Tasks : task[t] = IdleTask

\* C15: a request that goes through header injection carries X-CSRF-Token
\* exactly when its method is POST, PUT, DELETE or PATCH, its path is not in
\* the allow-list and csrfToken is non-empty, and then the header is the
\* csrfToken held at injection; a GET, and an allow-listed path, never carry
\* it.  auth/refresh and auth/logout are POSTs outside the allow-list.
C15_CsrfHeaderPolicy ==
    /\ [](\A t \in Tasks :
            (~task[t].public /\ ~NeedsCsrf(t)) => task[t].headers.csrf = 0)
    /\ [][\A t \in Tasks :
            /\ (SendsRequest(t) /\ ~task[t].public') =>
                   task[t].headers.csrf' =
                       IF /\ task[t].req.method' \in StateChanging
                          /\ task[t].req.url' \notin CsrfExempt
                       THEN authStore.csrfToken' ELSE 0
            /\ SendsCall(t) => task[t].call.csrf' = authStore.csrfToken']_vars

\* a PUT outside the allow-list on the network with the CSRF token in memory
C15_Witness ==
    \E t \in Tasks :
        /\ task[t].pc = "sent1" /\ task[t].req.url = GarminLink
        /\ authStore.csrfToken # 0
        /\ task[t].headers.csrf = authStore.csrfToken

\* the values of X-Client-Type the backend accepts
ClientTypes == {"web", "mobile"}

Created == {i \in SocketIds : sockets[i].readyState = "NONE"
                               /\ sockets[i].readyState' # "NONE"}

\* C17: a login with valid credentials and MFA disabled (auth/login
\* answered with tokens) ends Authenticated: user set, isAuthenticated true,
\* accessToken and csrfToken those of the login, session id set and
\* persisted, and the notification channel opened exactly once, with the
\* access token that login issued.
C17_LoginAuthenticated ==
    [][\A t \in Tasks, u \in Users :
          (LoginComplete(t, u) /\ task[t].req.url = AuthLogin) =>
              LET tok == task[t].first.body
              IN  /\ HasTokens(tok)
                  /\ authStore.user' = u /\ authStore.isAuthenticated'
                  /\ authStore.accessToken' = tok /\ authStore.csrfToken' = tok
                  /\ authStore.session_id' # 0
                  /\ getItem(localStorage', "session_id") = authStore.session_id'
                  /\ getItem(localStorage', "user") = u
                  /\ Created = {authStore.user_websocket'}
                  /\ sockets'[authStore.user_websocket'] =
                         [readyState |-> "CONNECTING", token |-> tok]
                  /\ \A i \in SocketIds \ Created : sockets[i]' = sockets[i]]_vars

\* the first login of a page has completed: one channel, with its token
C17_Witness ==
    /\ authStore.isAuthenticated /\ authStore.user # 0
    /\ authStore.accessToken = 1 /\ authStore.csrfToken = 1
    /\ getItem(localStorage, "session_id") = authStore.session_id
    /\ authStore.user_websocket # 0
    /\ Alive = {authStore.user_websocket}
    /\ sockets[authStore.user_websocket].token = 1
    /\ calls = 1 /\ \A t \in Tasks : task[t] = IdleTask

\* auth/login has answered t with the MFA-required payload
MfaPending(t) ==
    /\ task[t].pc = "done" /\ task[t].req.url = AuthLogin
    /\ task[t].out.kind = "resolved" /\ task[t].out.val = MfaRequired

\* C18: a login answered with MFA required sets nothing: the step that
\* brings the answer and the one that takes it leave store, storage and
\* sockets as they were, so a session that was anonymous has no tokens, is
\* not authenticated and has no channel.  The session becomes authenticated
\* with tokens only through a call that resolved with tokens (auth/mfa/verify
\* in this flow), and the auth/mfa/verify request never carries X-CSRF-Token.
C18_MfaPendingNoTokens ==
    /\ [](\A t \in Tasks :
            task[t].req.url = AuthMfaVerify => task[t].headers.csrf = 0)
    /\ [][ /\ \A t \in Tasks :
                (MfaPending(t) \/ MfaPending(t)') =>
                    UNCHANGED <<authStore, sockets, localStorage>>
           /\ (~authStore.isAuthenticated /\ authStore.isAuthenticated'
                  /\ authStore.accessToken' # 0) =>
                 \E t \in Tasks :
                     /\ GotLoginTokens(t) /\ ~MfaPending(t)
                     /\ authStore.accessToken' = task[t].out.val
                     /\ task[t]' = IdleTask ]_vars

\* an anonymous session whose login was answered with MFA required
C18_Witness ==
    \E t \in Tasks :
        /\ MfaPending(t) /\ task[t].first.status = 202
        /\ authStore = FreshStore
        /\ \A i \in SocketIds : sockets[i] = NoSocket

\* the PKCE token exchange of t was answered 400, 404, 409 or 429
PkceFailed(t) ==
    /\ task[t].public /\ task[t].req.url = PkceTokens
    /\ task[t].first \in PkceErrors

\* C19: a failed PKCE token exchange (400, 404, 409, 429) goes to the caller
\* with its status and message as they came: the exchange was sent once, no
\* refresh and no logout is started, nothing is retried, and the step leaves
\* Session State, storage and sockets unchanged and issues no redirect.
C19_PkceErrorVerbatim ==
    /\ [](\A t \in Tasks :
            PkceFailed(t) =>
                /\ task[t].pc = "done"
                /\ task[t].out = [kind |-> "rejected",
                                  status |-> task[t].first.status,
                                  detail |-> task[t].first.detail, val |-> 0]
                /\ task[t].sends = 1 /\ task[t].refreshed = 0
                /\ task[t].lopc = "none" /\ task[t].call = NoHeaders)
    /\ [][\A t \in Tasks :
            (task[t].pc = "pubsent" /\ PkceFailed(t)') =>
                UNCHANGED <<authStore, localStorage, sockets, redirect, issued>>]_vars

\* a replayed exchange of a logged-in session: the 409 is with the caller
C19_Witness ==
    \E t \in Tasks :
        /\ PkceFailed(t) /\ task[t].first.status = 409
        /\ task[t].out.kind = "rejected" /\ task[t].out.status = 409
        /\ task[t].out.detail = "Tokens already exchanged"
        /\ authStore.isAuthenticated /\ authStore.accessToken # 0

\* the characters of a string
Chars(str) == {str[i] : i \in 1 .. Len(str)}

RecoveryStarted(t) ==
    \/ task[t].pc \in {"refreshing", "sent2"}
    \/ task[t].pc = "done" /\ (task[t].sends = 2 \/ task[t].out.kind = "undefined")

\* the first attempt's response has arrived (fetchWithRetry or public call)
FirstAnswered(t) == task[t].req # NoRequest /\ task[t].first # NoResponse

\* C21: attemptFetch fails exactly when the response status is not 2xx, and
\* the failure carries the status and the payload's detail, or "Unknown
\* error" when there is no detail; a 2xx is handed to the caller as the
\* result.  The 401 recovery of fetchWithRetry starts only on a failure with
\* status 401, and a 401 of a resource endpoint always starts it.
C21_TransportErrors ==
    \A t \in Tasks :
        FirstAnswered(t) =>
            /\ (task[t].first.status \in 200 .. 299) =>
                   /\ task[t].pc = "done" /\ task[t].sends = 1
                   /\ task[t].out.kind = "resolved"
                   /\ task[t].out.status = task[t].first.status
            /\ (task[t].first.status \notin 200 .. 299) =>
                   \/ /\ task[t].pc = "done" /\ task[t].sends = 1
                      /\ task[t].out.kind = "rejected"
                      /\ task[t].out.status = task[t].first.status
                      /\ task[t].out.detail =
                             (IF task[t].first.detail = "" THEN "Unknown error"
                              ELSE task[t].first.detail)
                   \/ RecoveryStarted(t) /\ ~task[t].public
            /\ RecoveryStarted(t) => task[t].first.status = 401
            /\ (task[t].first.status = 401 /\ task[t].req.url = Profile) =>
                   RecoveryStarted(t)

\* a failure without detail reached its caller as "500 - Unknown error", one
\* with a detail carries the detail, and a 401 is in recovery
C21_Witness ==
    \E t \in Tasks, u \in Tasks :
        /\ FirstAnswered(t) /\ task[t].first.status = 500
        /\ task[t].first.detail = ""
        /\ task[t].out.kind = "rejected" /\ task[t].out.detail = "Unknown error"
        /\ FirstAnswered(u) /\ task[u].first.status = 401
        /\ task[u].pc = "refreshing"

\* the callers waiting for the coordinator's promise p
Holding(p) == {t \in Tasks : task[t].pc = "awaiting" /\ task[t].promise = p}

\* the coordinator's requests on the network
CoordinatorRequests == {t \in Tasks : task[t].pc = "awaiting" /\ task[t].sends = 1}

\* t calls the coordinator in this step
CallsCoordinator(t) == task[t].pc = "idle" /\ task[t].pc' = "awaiting"

\* C22: the coordinator is single-flight: a call made while
\* refreshTokenPromise is set gets that same pending promise, sends no
\* request and leaves the marker alone; so at most one coordinator request
\* is on the network, every waiting caller holds the marked promise, and
\* callers of one promise get the same outcome.
C22_CoordinatorSingleFlight ==
    /\ [][\A t \in Tasks :
            (CallsCoordinator(t) /\ refreshTokenPromise # 0) =>
                /\ task[t].promise' = refreshTokenPromise
                /\ task[t].sends' = 0
                /\ CoordinatorRequests' = CoordinatorRequests
                /\ UNCHANGED refreshTokenPromise]_vars
    /\ [](/\ Cardinality(CoordinatorRequests) <= 1
          /\ \A t \in Tasks :
                task[t].pc = "awaiting" =>
                    refreshTokenPromise # 0 /\ task[t].promise = refreshTokenPromise
          /\ \A t \in Tasks, u \in Tasks :
                (task[t].pc = "done" /\ task[u].pc = "done"
                 /\ task[t].promise # 0 /\ task[t].promise = task[u].promise) =>
                    task[t].out = task[u].out)

\* two callers of one promise, one request, both resumed with its tokens
C22_Witness ==
    \E t \in Tasks, u \in Tasks :
        /\ task[t].pc = "done" /\ task[u].pc = "done"
        /\ task[t].promise = t /\ task[u].promise = t
        /\ task[t].sends = 1 /\ task[u].sends = 0
        /\ task[u].out.kind = "resolved" /\ task[u].out.val = authStore.accessToken

\* the coordinator's promise settles in this step
CoordinatorSettles ==
    \E t \in Tasks : task[t].pc = "awaiting" /\ task[t].pc' = "done"

\* C23: the pending marker is cleared when the refresh attempt settles,
\* whether it succeeded or failed, and (the page staying loaded) at no other
\* time; a call made when the marker is clear sends a fresh request.
C23_MarkerCleared ==
    /\ [][CoordinatorSettles => refreshTokenPromise' = 0]_vars
    /\ [][(refreshTokenPromise # 0 /\ refreshTokenPromise' = 0) =>
              (CoordinatorSettles \/ (\A t \in Tasks : task[t]' = IdleTask))]_vars
    /\ [][\A t \in Tasks :
            (CallsCoordinator(t) /\ refreshTokenPromise = 0) =>
                /\ refreshTokenPromise' = t
                /\ task[t].promise' = t /\ task[t].sends' = 1
                /\ task[t].headers'.csrf = authStore.csrfToken]_vars

\* an attempt made after a successful one has failed, its marker is clear
C23_Witness ==
    \E t \in Tasks :
        /\ task[t].pc = "done" /\ task[t].promise = t
        /\ task[t].out.kind = "rejected" /\ task[t].out.status = 401
        /\ task[t].headers.csrf > 1
        /\ refreshTokenPromise = 0

\* the refresh of a 401 recovery fails in this step
RecoveryRefreshFailed(t) == task[t].pc = "refreshing" /\ task[t].pc' = "done"

\* C24: a refresh of a 401 recovery that fails does not itself clear Session
\* State: the step in which it fails leaves user, isAuthenticated,
\* accessToken, csrfToken and session_id as they were.
C24_FailedRefreshKeepsState ==
    [][\A t \in Tasks :
          RecoveryRefreshFailed(t) =>
              /\ authStore.user' = authStore.user
              /\ authStore.isAuthenticated' = authStore.isAuthenticated
              /\ authStore.accessToken' = authStore.accessToken
              /\ authStore.csrfToken' = authStore.csrfToken
              /\ authStore.session_id' = authStore.session_id]_vars

\* C25: a successful refresh of a 401 recovery updates accessToken,
\* csrfToken and session_id in one step to the values of the refresh
\* response, session_id in memory and in localStorage.  The response always
\* carries a session_id, so after the step the store holds the response's
\* tokens and a session id, and localStorage holds the same session id.
C25_RefreshUpdatesAll ==
    [][\A t \in Tasks :
          RecoveryRefreshed(t) =>
              /\ authStore.accessToken' = task[t].refreshed'
              /\ authStore.csrfToken' = task[t].refreshed'
              /\ authStore.session_id' # 0
              /\ getItem(localStorage', "session_id") = authStore.session_id']_vars

\* no auth/refresh call is on the network (recovery or logoutUser)
RefreshesSettled ==
    \A t \in Tasks : task[t].pc # "refreshing" /\ task[t].lopc # "refreshing"

\* C26: the notification channel follows the access token: once the
\* refreshes have settled, the channel the store holds, if it is connecting
\* or open and was opened with a token, was opened with the access token the
\* store holds now.
C26_ChannelFollowsToken ==
    (RefreshesSettled /\ authStore.user_websocket # 0 /\ authStore.accessToken # 0) =>
        LET ws == sockets[authStore.user_websocket]
        IN  (ws.readyState \in {"CONNECTING", "OPEN"} /\ ws.token # 0) =>
                ws.token = authStore.accessToken

\* the first attempt of a call through fetchWithRetry was answered with a 401
FirstGot401(t) ==
    FirstAnswered(t) /\ ~task[t].public /\ task[t].first.status = 401

\* the call ended after one send, rejected with the error of its first
\* attempt, and no refresh, retry or logoutUser was started for it
RejectedUnrecovered(t) ==
    /\ task[t].pc = "done" /\ task[t].sends = 1
    /\ task[t].out.kind = "rejected"
    /\ task[t].out.status = task[t].first.status
    /\ task[t].lopc = "none" /\ task[t].call = NoHeaders
    /\ task[t].refreshed = 0

\* C27: a 401 from a public endpoint (password-reset/*, sign-up/*, public/*)
\* requested through fetchWithRetry goes to the caller as it is: no refresh,
\* no retry, no teardown, no redirect.
C27_PublicEndpoint401 ==
    \A t \in Tasks :
        (/\ FirstGot401(t)
         /\ \/ task[t].req.url \in {PasswordResetRequest, PasswordResetConfirm,
                                     SignUpRequest, SignUpConfirm}
            \/ StartsWithPublic(task[t].req.url)) =>
            RejectedUnrecovered(t)

SessionEndpoints == {AuthLogin, AuthRefresh, AuthLogout}

\* C28: a 401 from auth/login, auth/refresh or auth/logout is never
\* recovered: fetchWithRetry rejects with that error after one send, starts
\* no refresh, retry or teardown and issues no redirect, and the step changes
\* neither the store nor the storage nor the sockets.  This holds for the
\* 401s these endpoints can answer with, whoever sends the request (the UI,
\* the store's refreshAccessToken or logoutUser).
C28_SessionEndpoint401 ==
    /\ [](\A t \in Tasks :
            (FirstGot401(t) /\ task[t].req.url \in SessionEndpoints) =>
                RejectedUnrecovered(t))
    /\ [](\A url \in SessionEndpoints : \A resp \in ErrorResponses(url) :
            ~Recoverable(url, resp))
    /\ [][\A t \in Tasks :
            (/\ task[t].pc = "sent1" /\ FirstGot401(t)'
             /\ task[t].req.url \in SessionEndpoints) =>
                UNCHANGED <<authStore, localStorage, sockets, redirect, issued>>]_vars

\* a login attempt made on a logged-in page was answered with a 401 and
\* rejected with it
C28_Witness ==
    \E t \in Tasks :
        /\ FirstGot401(t) /\ task[t].req.url = AuthLogin
        /\ RejectedUnrecovered(t) /\ task[t].out.detail = "Unknown error"
        /\ authStore.isAuthenticated /\ authStore.accessToken # 0
        /\ redirect = "none"

\* C29: a 401 from garminconnect/link whose message has the Garmin Connect
\* authentication error goes to the caller at once, with no refresh, retry
\* or teardown; any other 401 from that endpoint starts the recovery's
\* refresh.
C29_GarminLink401 ==
    \A t \in Tasks :
        (FirstGot401(t) /\ task[t].req.url = GarminLink) =>
            IF task[t].first.detail = GarminAuthError
            THEN /\ RejectedUnrecovered(t)
                 /\ task[t].out.detail = GarminAuthError
            ELSE RecoveryStarted(t)

\* both cases at once: one call rejected with the Garmin message, another
\* call to the endpoint in its refresh
C29_Witness ==
    \E t \in Tasks, u \in Tasks :
        /\ FirstGot401(t) /\ task[t].req.url = GarminLink
        /\ task[t].first.detail = GarminAuthError
        /\ task[t].out.kind = "rejected"
        /\ FirstGot401(u) /\ task[u].req.url = GarminLink
        /\ task[u].first.detail = "" /\ task[u].pc = "refreshing"
        /\ redirect = "none"

\* the refresh of t's recovery succeeded and the second attempt failed
RetryFailed(t) ==
    /\ task[t].pc = "done" /\ task[t].refreshed # 0
    /\ task[t].retry # NoResponse /\ ~Ok(task[t].retry)

\* C30: teardown happens only when the refresh fails: if the refresh
\* succeeded and the retried request fails, with any status, the caller gets
\* the error of the retry, no logoutUser is started for the call and no
\* redirect is issued for it.
C30_RetryFailurePropagates ==
    \A t \in Tasks :
        RetryFailed(t) =>
            /\ task[t].out.kind = "rejected"
            /\ task[t].out.status = task[t].retry.status
            /\ task[t].lopc = "none"
            /\ redirect # "retryFailed"

\* C31: on a refresh failure during 401 recovery the sessionExpired redirect
\* is issued only once the local teardown is complete: in the step that
\* issues it the state in memory is cleared and the persisted user and
\* session_id are removed, so the page load that follows the redirect does
\* not come up authenticated.
C31_TeardownBeforeRedirect ==
    /\ [][(redirect # "refreshFailed" /\ redirect' = "refreshFailed") =>
              FullyCleared']_vars
    /\ [][(redirect = "refreshFailed" /\ redirect' = "none") =>
              ~authStore.isAuthenticated']_vars

\* a step of a call through fetchWithRetry that sends its first attempt, or
\* ends it at the first attempt with a 2xx or with an error that is no 401
FirstAttemptStep(t) ==
    \/ task[t].pc = "idle" /\ task[t].pc' = "sent1"
    \/ /\ task[t].pc = "sent1" /\ task[t].pc' = "done"
       /\ Ok(task[t].first') \/ task[t].first.status' # 401

\* a login completes, an auth/refresh call of the store settles, or
\* logoutUser's auth/logout call settles, in this step
SessionStep ==
    \E t \in Tasks :
        \/ GotLoginTokens(t) /\ task[t]' = IdleTask
        \/ task[t].pc = "refreshing" /\ task[t].pc' # "refreshing"
        \/ task[t].lopc = "refreshing" /\ task[t].lopc' = "loggingout"
        \/ task[t].lopc = "loggingout" /\ task[t].lopc' = "done"

\* the document is loaded anew: every call of the old page is gone
PageLoad == redirect' = "none" /\ \A t \in Tasks : task[t]' = IdleTask

ClearsUser == \E t \in Tasks : task[t].lopc = "loggingout" /\ task[t].lopc' = "done"

\* C33: every transition to Anonymous closes the notification channel:
\* after clearUser the store holds no channel, and no socket the store
\* created is connecting or open (one that is connecting would open later).
C33_ClearUserClosesChannel ==
    [][ClearsUser =>
          /\ authStore.user_websocket' = 0
          /\ \A i \in SocketIds :
                sockets'[i].readyState \notin {"CONNECTING", "OPEN"}]_vars

\* the call of t went into 401 recovery and the recovery's refresh failed
RecoveryFailed(t) ==
    /\ FirstGot401(t) /\ Recoverable(task[t].req.url, task[t].first)
    /\ task[t].pc = "done" /\ task[t].refreshed = 0

\* C34: when the refresh of a 401 recovery fails, the original caller's
\* operation is rejected: the call ends with an error for its caller and
\* never as a success.
C34_RecoveryFailureRejects ==
    \A t \in Tasks : RecoveryFailed(t) => task[t].out.kind = "rejected"

\* t sends an auth/refresh call in this step (for a 401 recovery, or for
\* logoutUser)
SendsRefresh(t) ==
    \/ task[t].pc # "refreshing" /\ task[t].pc' = "refreshing"
    \/ task[t].lopc # "refreshing" /\ task[t].lopc' = "refreshing"

\* C35: the request sent to auth/refresh carries X-CSRF-Token equal to the
\* csrfToken the store holds when it is sent, if that is non-empty, and no
\* X-CSRF-Token header if it is empty; while the call is on the network its
\* headers stay what they were.
C35_RefreshCsrfHeader ==
    /\ [][\A t \in Tasks :
            SendsRefresh(t) =>
                /\ task[t].call'.csrf = authStore.csrfToken'
                /\ task[t].call'.clientType = "web"]_vars
    /\ [][\A t \in Tasks :
            (task[t].pc = "refreshing" /\ task[t].pc' = "refreshing") =>
                task[t].call' = task[t].call]_vars

\* a refresh on the network that carries the CSRF token of a logged-in page
C35_Witness ==
    \E t \in Tasks :
        /\ task[t].pc = "refreshing"
        /\ task[t].call.csrf # 0 /\ task[t].call.csrf = authStore.csrfToken
        /\ authStore.isAuthenticated

\* how far a call has come in fetchWithRetry (or a public call), and how far
\* a logoutUser has come; no other position exists for a call
PcRank(pc) ==
    CASE pc = "idle" -> 0
      [] pc \in {"sent1", "pubsent"} -> 1
      [] pc = "refreshing" -> 2
      [] pc = "sent2" -> 3
      [] pc = "done" -> 4
      [] OTHER -> 0 - 1
LoRank(lopc) ==
    CASE lopc = "none" -> 0
      [] lopc = "refreshing" -> 1
      [] lopc = "loggingout" -> 2
      [] lopc = "done" -> 3
      [] OTHER -> 0 - 1

\* the caller takes the outcome (a logoutUser started without await goes
\* on), or the page is loaded anew
HandedOver(t) ==
    \/ task[t]' = IdleTask
    \/ task[t].pc = "done" /\ task[t].pc' = "idle" /\ task[t].lopc' = task[t].lopc

\* C36: no loop.  A call through the request layer only moves forward
\* through first attempt, refresh, second attempt and end, and the
\* logoutUser of a teardown through its refresh, its auth/logout call and
\* its end: the request is sent at most twice, each step that changes a
\* call moves it strictly forward or hands its outcome over, and a 401 from
\* auth/refresh or auth/logout never puts a call into a recovery of that
\* inner call or back to an earlier position.  A call therefore ends after
\* a bounded number of network calls.
C36_NoLoop ==
    /\ [](\A t \in Tasks :
            /\ PcRank(task[t].pc) >= 0 /\ LoRank(task[t].lopc) >= 0
            /\ task[t].sends <= 2)
    /\ [][\A t \in Tasks :
            (task[t]' # task[t] /\ ~HandedOver(t)) =>
                /\ PcRank(task[t].pc') >= PcRank(task[t].pc)
                /\ LoRank(task[t].lopc') >= LoRank(task[t].lopc)
                /\ PcRank(task[t].pc') + LoRank(task[t].lopc')
                       > PcRank(task[t].pc) + LoRank(task[t].lopc)]_vars

\* the logoutUser of a teardown has ended after its auth/logout call was
\* answered with a 401
C36_Witness ==
    \E t \in Tasks :
        /\ redirect = "refreshFailed"
        /\ task[t].lopc = "done" /\ task[t].first.status = 401
        /\ FullyCleared

\* logoutUser has just run clearUser (its caller has not resumed yet)
JustLoggedOut == \E t \in Tasks : task[t].lopc = "done"

\* C37: no tokens after logout.  Once logoutUser has run clearUser the
\* tokens are empty and isAuthenticated is false, and they stay so when a
\* refresh that another request started before the logout completes
\* afterwards: whatever auth/refresh answers to a recovery that is still
\* waiting for it, the store's refreshAccessToken leaves accessToken and
\* csrfToken empty and isAuthenticated false.
C37_NoTokensAfterLogout ==
    JustLoggedOut =>
        /\ authStore.accessToken = 0 /\ authStore.csrfToken = 0
        /\ ~authStore.isAuthenticated
        /\ \A u \in Tasks :
              task[u].pc = "refreshing" =>
                  \A resp \in Responses(AuthRefresh) :
                      LET w == refreshAccessTokenSettle(World, resp)
                      IN  /\ w.st.accessToken = 0 /\ w.st.csrfToken = 0
                          /\ ~w.st.isAuthenticated

\* the answers auth/refresh can give with a 2xx status and no access_token
NoTokenAnswers == {resp \in Responses(AuthRefresh) : Ok(resp) /\ ~HasTokens(resp.body)}

\* an auth/refresh call of the store is on the network
RefreshPending ==
    \E t \in Tasks : task[t].pc = "refreshing" \/ task[t].lopc = "refreshing"

====
